---- MODULE Spec2Model ----
(***************************************************************************)
(* Student Management System (scripts/student_management_system.py).       *)
(*                                                                         *)
(* Representation.                                                         *)
(*   - A Python str is a sequence of one-character strings, so that        *)
(*     lower(), upper(), CSV quoting and number parsing are computed       *)
(*     character by character.                                             *)
(*   - A Python float (Marks, GPA) is a fixed-point number counted in      *)
(*     tenths: 855 is 85.5, 37 is 3.7.  Every threshold and range limit    *)
(*     of the source is therefore written times ten.                       *)
(*   - The file is a flag (does it exist) and its sequence of lines; no    *)
(*     field of the model contains a line break, so a CSV row is a line.   *)
(*   - input() either returns text or raises (EOFError, KeyboardInterrupt);*)
(*     a handler's inputs are the values its prompts finally accept and    *)
(*     the prompt, if any, at which input() raises.                        *)
(***************************************************************************)
EXTENDS Integers, Sequences, FiniteSets, TLC

VARIABLES students, file, phase, last, found, ops,
          loadError, reloaded, marksIn, gradeOut

vars == <<students, file, phase, last, found, ops,
          loadError, reloaded, marksIn, gradeOut>>

----------------------------------------------------------------------------
(* Bounds of the model *)

MaxOps == 3

MaxTries == 2

MaxRecords == 2

----------------------------------------------------------------------------
(* Text *)

Uppers == <<"A","B","C","D","E","F","G","H","I","J","K","L","M",
            "N","O","P","Q","R","S","T","U","V","W","X","Y","Z">>

Lowers == <<"a","b","c","d","e","f","g","h","i","j","k","l","m",
            "n","o","p","q","r","s","t","u","v","w","x","y","z">>

Digits == <<"0","1","2","3","4","5","6","7","8","9">>

LowerChar(c) ==
    IF \E i \in 1..Len(Uppers) : Uppers[i] = c
    THEN Lowers[CHOOSE i \in 1..Len(Uppers) : Uppers[i] = c]
    ELSE c

UpperChar(c) ==
    IF \E i \in 1..Len(Lowers) : Lowers[i] = c
    THEN Uppers[CHOOSE i \in 1..Len(Lowers) : Lowers[i] = c]
    ELSE c

\* str.lower()
Lower(s) == [i \in 1..Len(s) |-> LowerChar(s[i])]

\* str.upper()
Upper(s) == [i \in 1..Len(s) |-> UpperChar(s[i])]

\* "needle in hay" on str
Contains(hay, needle) ==
    \E i \in 0..(Len(hay) - Len(needle)) :
        \A j \in 1..Len(needle) : hay[i + j] = needle[j]

IsDigit(c) == \E i \in 1..10 : Digits[i] = c

DigitVal(c) == (CHOOSE i \in 1..10 : Digits[i] = c) - 1

RECURSIVE IntText(_)
\* str(n) of an int n >= 0
IntText(n) ==
    IF n < 10 THEN <<Digits[n + 1]>>
    ELSE IntText(n \div 10) \o <<Digits[(n % 10) + 1]>>

\* str(x) of a float x >= 0 counted in tenths: 855 is written 85.5
FloatText(t) == IntText(t \div 10) \o <<".">> \o <<Digits[(t % 10) + 1]>>

\* The value a conversion raises ValueError on
ValueError == -1

RECURSIVE DigitsValue(_)
DigitsValue(s) ==
    IF Len(s) = 0 THEN 0
    ELSE 10 * DigitsValue(SubSeq(s, 1, Len(s) - 1)) + DigitVal(s[Len(s)])

\* int(text): decimal digits, else ValueError
ParseInt(s) ==
    IF Len(s) > 0 /\ \A i \in 1..Len(s) : IsDigit(s[i])
    THEN DigitsValue(s)
    ELSE ValueError

\* float(text), in tenths: digits, or digits "." digit; else ValueError
ParseFloat(s) ==
    IF Len(s) > 0 /\ \A i \in 1..Len(s) : IsDigit(s[i])
    THEN 10 * DigitsValue(s)
    ELSE IF /\ Len(s) >= 3
            /\ s[Len(s) - 1] = "."
            /\ \A i \in (1..Len(s)) \ {Len(s) - 1} : IsDigit(s[i])
         THEN 10 * DigitsValue(SubSeq(s, 1, Len(s) - 2)) + DigitVal(s[Len(s)])
         ELSE ValueError

----------------------------------------------------------------------------
(* CSV, as csv.writer / csv.DictWriter / csv.DictReader of the excel dialect *)

Comma == ","

Quote == "\""

\* QUOTE_MINIMAL: a field holding the delimiter or the quote character is
\* quoted
NeedsQuoting(s) == \E i \in 1..Len(s) : s[i] = Comma \/ s[i] = Quote

RECURSIVE DoubleQuotes(_)
DoubleQuotes(s) ==
    IF Len(s) = 0 THEN <<>>
    ELSE (IF Head(s) = Quote THEN <<Quote, Quote>> ELSE <<Head(s)>>)
         \o DoubleQuotes(Tail(s))

\* Variant: fields are written as they are, never quoted
QuoteFieldRaw(s) == s

\* one field as csv.writer writes it
QuoteField(s) ==
    IF NeedsQuoting(s) THEN <<Quote>> \o DoubleQuotes(s) \o <<Quote>> ELSE s

RECURSIVE FormatRow(_)
\* csv.writer.writerow: the fields, each quoted as needed, joined by commas
FormatRow(fields) ==
    IF Len(fields) = 0 THEN <<>>
    ELSE IF Len(fields) = 1 THEN QuoteField(fields[1])
    ELSE QuoteField(fields[1]) \o <<Comma>> \o FormatRow(Tail(fields))

RECURSIVE ParseFrom(_, _, _, _, _)
\* csv.reader's automaton over one line. st is the parser's state:
\* "start" (START_FIELD), "field" (IN_FIELD), "quoted" (IN_QUOTED_FIELD),
\* "qq" (QUOTE_IN_QUOTED_FIELD).
ParseFrom(line, i, st, cur, acc) ==
    IF i > Len(line) THEN Append(acc, cur)
    ELSE LET c == line[i] IN
      CASE st = "start" ->
             IF c = Quote THEN ParseFrom(line, i + 1, "quoted", cur, acc)
             ELSE IF c = Comma THEN ParseFrom(line, i + 1, "start", <<>>, Append(acc, cur))
             ELSE ParseFrom(line, i + 1, "field", Append(cur, c), acc)
        [] st = "field" ->
             IF c = Comma THEN ParseFrom(line, i + 1, "start", <<>>, Append(acc, cur))
             ELSE ParseFrom(line, i + 1, "field", Append(cur, c), acc)
        [] st = "quoted" ->
             IF c = Quote THEN ParseFrom(line, i + 1, "qq", cur, acc)
             ELSE ParseFrom(line, i + 1, "quoted", Append(cur, c), acc)
        [] OTHER ->
             IF c = Quote THEN ParseFrom(line, i + 1, "quoted", Append(cur, c), acc)
             ELSE IF c = Comma THEN ParseFrom(line, i + 1, "start", <<>>, Append(acc, cur))
             ELSE ParseFrom(line, i + 1, "field", Append(cur, c), acc)

\* csv.reader on one line: an empty line is the empty row
ParseLine(line) ==
    IF Len(line) = 0 THEN <<>> ELSE ParseFrom(line, 1, "start", <<>>, <<>>)

----------------------------------------------------------------------------
(* Records and the grading scale *)

kRollNo == <<"R","o","l","l","_","N","o">>
kName == <<"N","a","m","e">>
kAge == <<"A","g","e">>
kGender == <<"G","e","n","d","e","r">>
kDepartment == <<"D","e","p","a","r","t","m","e","n","t">>
kSemester == <<"S","e","m","e","s","t","e","r">>
kMarks == <<"M","a","r","k","s">>
kGPA == <<"G","P","A">>
kGrade == <<"G","r","a","d","e">>

\* fieldnames of save_students and of initialize_csv_file's header row
FieldNames ==
    <<kRollNo, kName, kAge, kGender, kDepartment, kSemester, kMarks, kGPA, kGrade>>

gM == <<"M">>
gF == <<"F">>
gOTHER == <<"O","T","H","E","R">>

\* ['M', 'F', 'OTHER']
Genders == {gM, gF, gOTHER}

\* Variant: the bands exclude their lower bounds (> for >=)
calculate_exclusive(marks) ==
    IF marks > 900 THEN <<40, <<"A","+">> >>
    ELSE IF marks > 800 THEN <<37, <<"A">> >>
    ELSE IF marks > 700 THEN <<33, <<"B","+">> >>
    ELSE IF marks > 600 THEN <<30, <<"B">> >>
    ELSE IF marks > 500 THEN <<27, <<"C","+">> >>
    ELSE IF marks > 400 THEN <<20, <<"C">> >>
    ELSE <<0, <<"F">> >>

\* calculate_gpa_and_grade: <<GPA, Grade>> of marks; marks and GPA in tenths
calculate_gpa_and_grade(marks) ==
    IF marks >= 900 THEN <<40, <<"A","+">> >>
    ELSE IF marks >= 800 THEN <<37, <<"A">> >>
    ELSE IF marks >= 700 THEN <<33, <<"B","+">> >>
    ELSE IF marks >= 600 THEN <<30, <<"B">> >>
    ELSE IF marks >= 500 THEN <<27, <<"C","+">> >>
    ELSE IF marks >= 400 THEN <<20, <<"C">> >>
    ELSE <<0, <<"F">> >>

\* the student dict add_student creates
NewStudent(roll_no, name, age, gender, department, semester, marks) ==
    [Roll_No |-> roll_no, Name |-> name, Age |-> age, Gender |-> gender,
     Department |-> department, Semester |-> semester, Marks |-> marks,
     GPA |-> calculate_gpa_and_grade(marks)[1],
     Grade |-> calculate_gpa_and_grade(marks)[2]]

----------------------------------------------------------------------------
(* Persistence *)

NoFile == [exists |-> FALSE, lines |-> <<>>]

\* the text of one record's row: DictWriter takes the values in fieldnames
\* order and writes str() of each
RowOf(s) ==
    FormatRow(<<s.Roll_No, s.Name, IntText(s.Age), s.Gender, s.Department,
                IntText(s.Semester), FloatText(s.Marks), FloatText(s.GPA),
                s.Grade>>)

HeaderLine == FormatRow(FieldNames)

\* initialize_csv_file: the header row is written only when no file exists
initialize_csv_file(f) ==
    IF ~f.exists THEN [exists |-> TRUE, lines |-> <<HeaderLine>>] ELSE f

\* save_students: the file is opened for writing (truncated); header and rows
\* are written only when the list is not empty
save_students(list) ==
    [exists |-> TRUE,
     lines |-> IF Len(list) > 0
               THEN <<HeaderLine>> \o [i \in 1..Len(list) |-> RowOf(list[i])]
               ELSE <<>>]

\* DictReader: a key of the header beyond the row's length maps to None
NoneValue == <<"None">>

\* a key the row dict does not hold
NoKey == <<"KeyError">>

\* row[name] of the dict DictReader builds: dict(zip(fieldnames, row)), the
\* missing trailing keys set to None
RowGet(fieldnames, row, name) ==
    LET hits == {i \in 1..Len(fieldnames) : fieldnames[i] = name} IN
    IF hits = {} THEN NoKey
    ELSE LET i == CHOOSE k \in hits : \A j \in hits : j <= k IN
         IF i <= Len(row) THEN row[i] ELSE NoneValue

\* int(row[k]) if row[k] else 0
IntOrZero(v) == IF v = NoneValue \/ Len(v) = 0 THEN 0 ELSE ParseInt(v)

\* float(row[k]) if row[k] else 0.0
FloatOrZero(v) == IF v = NoneValue \/ Len(v) = 0 THEN 0 ELSE ParseFloat(v)

\* the body of load_students' loop for one row: the converted dict, or the
\* exception (KeyError for a key the header lacks, ValueError for text that
\* is no number)
ConvertRow(fieldnames, row) ==
    LET get(k) == RowGet(fieldnames, row, k)
        age == IntOrZero(get(kAge))
        sem == IntOrZero(get(kSemester))
        marks == FloatOrZero(get(kMarks))
        gpa == FloatOrZero(get(kGPA))
        raised == \/ \E k \in {kAge, kSemester, kMarks, kGPA} : get(k) = NoKey
                  \/ ValueError \in {age, sem, marks, gpa}
    IN  IF raised THEN [ok |-> FALSE]
        ELSE [ok |-> TRUE,
              rec |-> [Roll_No |-> get(kRollNo), Name |-> get(kName), Age |-> age,
                       Gender |-> get(kGender), Department |-> get(kDepartment),
                       Semester |-> sem, Marks |-> marks, GPA |-> gpa,
                       Grade |-> get(kGrade)]]

RECURSIVE LoadRows(_, _, _)
\* load_students' loop: rows are appended one by one; an exception leaves
\* the loop, is printed, and the list built so far is returned
LoadRows(lines, fieldnames, acc) ==
    IF Len(lines) = 0 THEN [students |-> acc, error |-> FALSE]
    ELSE LET row == ParseLine(Head(lines)) IN
         IF Len(row) = 0 THEN LoadRows(Tail(lines), fieldnames, acc)
         ELSE LET c == ConvertRow(fieldnames, row) IN
              IF c.ok THEN LoadRows(Tail(lines), fieldnames, Append(acc, c.rec))
              ELSE [students |-> acc, error |-> TRUE]

\* load_students: an absent file gives the empty list (FileNotFoundError)
load_students(f) ==
    IF ~f.exists \/ Len(f.lines) = 0 THEN [students |-> <<>>, error |-> FALSE]
    ELSE LoadRows(Tail(f.lines), ParseLine(f.lines[1]), <<>>)

----------------------------------------------------------------------------
(* What the user can type *)

\* answers to a roll number prompt, after strip()
RollInputs == {<<>>, <<"a">>, <<"A">>, <<"b">>}

\* answers to the prompts for the six editable fields, after strip(); Marks
\* in tenths
Forms ==
    {[Name |-> <<"n">>, Age |-> 15, Gender |-> <<"m">>,
      Department |-> <<"c","s">>, Semester |-> 1, Marks |-> 399],
     [Name |-> <<"m",",","\"">>, Age |-> 100, Gender |-> <<"o","t","h","e","r">>,
      Department |-> <<"e">>, Semester |-> 8, Marks |-> 900],
     [Name |-> <<>>, Age |-> 20, Gender |-> <<"x">>,
      Department |-> <<>>, Semester |-> 3, Marks |-> 855],
     [Name |-> <<"n">>, Age |-> 14, Gender |-> <<"f">>,
      Department |-> <<"e">>, Semester |-> 9, Marks |-> 1001]}

NoInput ==
    [Name |-> <<>>, Age |-> 0, Gender |-> <<>>, Department |-> <<>>,
     Semester |-> 0, Marks |-> 0]

\* answers to the menu of update_student and of search_student
Choices == {"1", "2", "3", "4", "5", "6", "7", "x"}

\* answers to delete_student's confirmation, after strip()
Confirms == {<<"y">>, <<"Y","E","S">>, <<"n">>}

\* get_valid_input: the loop returns only a value within [min_val, max_val]
get_valid_input(value, min_val, max_val) ==
    value >= min_val /\ value <= max_val

\* the answers add_student's prompt loops accept
AddAccepts(f) ==
    /\ Len(f.Name) > 0
    /\ get_valid_input(f.Age, 15, 100)
    /\ Upper(f.Gender) \in Genders
    /\ Len(f.Department) > 0
    /\ get_valid_input(f.Semester, 1, 8)
    /\ get_valid_input(f.Marks, 0, 1000)

\* the answers update_student's get_valid_input loops accept
UpdateAccepts(f) ==
    /\ get_valid_input(f.Age, 15, 100)
    /\ get_valid_input(f.Semester, 1, 8)
    /\ get_valid_input(f.Marks, 0, 1000)

----------------------------------------------------------------------------
(* The record store *)

\* Variant: roll numbers compared without lower()
is_roll_no_unique_cased(roll_no, list) ==
    \A i \in 1..Len(list) : list[i].Roll_No # roll_no

\* is_roll_no_unique (exclude_index is never passed by a caller)
is_roll_no_unique(roll_no, list) ==
    \A i \in 1..Len(list) : Lower(list[i].Roll_No) # Lower(roll_no)

\* the search loop of update_student and delete_student: the index of the
\* first student whose roll number matches, 0 for the source's -1
FindIndex(list, roll_no) ==
    LET hits == {i \in 1..Len(list) : Lower(list[i].Roll_No) = Lower(roll_no)} IN
    IF hits = {} THEN 0 ELSE CHOOSE i \in hits : \A j \in hits : i <= j

\* search_student, choice 1
FindByRollNo(list, roll_no) ==
    SelectSeq(list, LAMBDA st : Lower(st.Roll_No) = Lower(roll_no))

\* search_student, choice 2
FindByName(list, name) ==
    SelectSeq(list, LAMBDA st : Contains(Lower(st.Name), Lower(name)))

\* Variant: the loop checks only that the answer is not empty
RollAcceptedUnchecked(roll_no, list) == Len(roll_no) > 0

\* the roll number loop of add_student takes an answer that is not empty
\* and is unique, and asks again otherwise
RollAccepted(roll_no, list) ==
    Len(roll_no) > 0 /\ is_roll_no_unique(roll_no, list)

\* Variant: students.pop() with no index
PopLast(list, i) == SubSeq(list, 1, Len(list) - 1)

\* students.pop(student_index)
PopAt(list, i) == SubSeq(list, 1, i - 1) \o SubSeq(list, i + 1, Len(list))

\* Variant: the name is assigned even when the answer is empty
SetNameAlways(st, text) == [st EXCEPT !.Name = text]

SetName(st, text) == IF Len(text) > 0 THEN [st EXCEPT !.Name = text] ELSE st

SetAge(st, age) == [st EXCEPT !.Age = age]

SetGender(st, text) ==
    IF Upper(text) \in Genders THEN [st EXCEPT !.Gender = Upper(text)] ELSE st

SetDepartment(st, text) ==
    IF Len(text) > 0 THEN [st EXCEPT !.Department = text] ELSE st

SetSemester(st, sem) == [st EXCEPT !.Semester = sem]

\* Variant: Marks is assigned and GPA, Grade are left as they were
SetMarksOnly(st, marks) == [st EXCEPT !.Marks = marks]

\* Marks is assigned and GPA, Grade are recomputed with no prompt between
SetMarks(st, marks) ==
    [st EXCEPT !.Marks = marks,
               !.GPA = calculate_gpa_and_grade(marks)[1],
               !.Grade = calculate_gpa_and_grade(marks)[2]]

\* the assignment that follows the k-th field prompt (1 Name .. 6 Marks)
SetField(st, k, f) ==
    CASE k = 1 -> SetName(st, f.Name)
      [] k = 2 -> SetAge(st, f.Age)
      [] k = 3 -> SetGender(st, f.Gender)
      [] k = 4 -> SetDepartment(st, f.Department)
      [] k = 5 -> SetSemester(st, f.Semester)
      [] OTHER -> SetMarks(st, f.Marks)

RECURSIVE UpdateAll(_, _, _)
\* choice 7: the six prompts in order, each followed by its assignment; n is
\* the number of prompts answered (6 unless input() raised)
UpdateAll(st, f, n) ==
    IF n = 0 THEN st ELSE SetField(UpdateAll(st, f, n - 1), n, f)

\* the field prompts a choice asks
NPrompts(c) == IF c = "7" THEN 6 ELSE 1

FieldOf(c) == CHOOSE k \in 1..6 : <<"1","2","3","4","5","6">>[k] = c

\* the student after update_student's branch for choice c, n prompts answered
ApplyChoice(st, c, f, n) ==
    IF c = "7" THEN UpdateAll(st, f, n)
    ELSE IF n = 0 THEN st ELSE SetField(st, FieldOf(c), f)

----------------------------------------------------------------------------
(* State *)

\* what the last handler did: its inputs and how it ended
Last(op, outcome, key, choice, idx, refused, inp, exc) ==
    [op |-> op, outcome |-> outcome, key |-> key, choice |-> choice,
     idx |-> idx, refused |-> refused, inp |-> inp, exc |-> exc]

NoLast == Last("none", "none", <<>>, "", 0, {}, NoInput, "none")

\* the files a first run can find: none, an empty one, one holding the header
StartFiles ==
    {NoFile, [exists |-> TRUE, lines |-> <<>>],
     [exists |-> TRUE, lines |-> <<HeaderLine>>]}

InitWith(f, list, ph) ==
    /\ file = f
    /\ students = list
    /\ phase = ph
    /\ last = NoLast
    /\ found = <<>>
    /\ ops = 0
    /\ loadError = FALSE
    /\ reloaded = <<>>
    /\ marksIn = 0
    /\ gradeOut = <<>>

Init == \E f \in StartFiles : InitWith(f, <<>>, "start")

AtMenu == phase = "menu" /\ ops < MaxOps

Aux == <<loadError, reloaded, marksIn, gradeOut>>

----------------------------------------------------------------------------
(* Operations *)

\* main, up to its loop: initialize_csv_file, then load_students
Startup ==
    /\ phase = "start"
    /\ file' = initialize_csv_file(file)
    /\ students' = load_students(file').students
    /\ loadError' = load_students(file').error
    /\ phase' = "menu"
    /\ last' = Last("start", "start", <<>>, "", 0, {}, NoInput, "none")
    /\ UNCHANGED <<found, ops, reloaded, marksIn, gradeOut>>

\* main returns: the process and its list are gone, the file stays
ProcessEnds(how) ==
    /\ phase' = "exited"
    /\ students' = <<>>
    /\ last' = Last("exit", how, <<>>, "", 0, {}, NoInput, "none")
    /\ UNCHANGED file

\* a handler returns to main's loop with the list as it was
Returns(op, outcome, key, idx, refused, exc) ==
    /\ last' = Last(op, outcome, key, "", idx, refused, NoInput, exc)
    /\ UNCHANGED <<students, file, phase>>

\* KeyboardInterrupt raised by a prompt of a handler: main leaves its loop
Interrupted == ProcessEnds("interrupted")

\* add_student: refused are the answers its roll number loop turned down,
\* roll_no the answer it took, f the answers the other prompts took. Nothing
\* is assigned before the last prompt, so an EOFError at any prompt leaves
\* the list as it was.
add_student ==
    /\ AtMenu
    /\ \E refused \in SUBSET {t \in RollInputs : ~RollAccepted(t, students)} :
         /\ Cardinality(refused) < MaxTries
         /\ \/ \E roll_no \in {t \in RollInputs : RollAccepted(t, students)},
                  f \in {g \in Forms : AddAccepts(g)} :
                 /\ students' = Append(students,
                        NewStudent(roll_no, f.Name, f.Age, Upper(f.Gender),
                                   f.Department, f.Semester, f.Marks))
                 /\ file' = save_students(students')
                 /\ last' = Last("add", "added", roll_no, "", Len(students'),
                                 refused, f, "none")
                 /\ UNCHANGED phase
            \/ Returns("add", "raised", <<>>, 0, refused, "eof")
            \/ Interrupted
    /\ found' = <<>>
    /\ ops' = ops + 1
    /\ UNCHANGED Aux

\* view_all_students: prints the list
view_all_students ==
    /\ AtMenu
    /\ Returns("view", "shown", <<>>, 0, {}, "none")
    /\ found' = <<>>
    /\ ops' = ops + 1
    /\ UNCHANGED Aux

\* search_student: found is the list it prints
search_student ==
    /\ AtMenu
    /\ IF Len(students) = 0
       THEN /\ found' = <<>>
            /\ Returns("search", "empty", <<>>, 0, {}, "none")
       ELSE \E c \in {"1", "2", "x"}, text \in RollInputs :
              /\ found' = IF c = "1" THEN FindByRollNo(students, text)
                          ELSE IF c = "2" THEN FindByName(students, text)
                          ELSE <<>>
              /\ last' = Last("search", IF c = "x" THEN "invalid" ELSE "found",
                              IF c = "x" THEN <<>> ELSE text, c, 0, {}, NoInput, "none")
              /\ UNCHANGED <<students, file, phase>>
    /\ ops' = ops + 1
    /\ UNCHANGED Aux

\* update_student: r answers the roll number prompt, c the menu, f the field
\* prompts; n is the number of field prompts answered before input() raises
\* EOFError
update_student ==
    /\ AtMenu
    /\ IF Len(students) = 0
       THEN Returns("update", "empty", <<>>, 0, {}, "none")
       ELSE
         \/ Returns("update", "raised", <<>>, 0, {}, "eof")
         \/ Interrupted
         \/ \E r \in RollInputs :
              LET i == FindIndex(students, r) IN
              IF i = 0
              THEN Returns("update", "notfound", r, 0, {}, "none")
              ELSE \E c \in Choices :
                IF c \notin {"1", "2", "3", "4", "5", "6", "7"}
                THEN /\ last' = Last("update", "invalid", r, c, i, {}, NoInput, "none")
                     /\ UNCHANGED <<students, file, phase>>
                ELSE \E f \in {g \in Forms : UpdateAccepts(g)} :
                  \/ /\ students' = [students EXCEPT
                            ![i] = ApplyChoice(students[i], c, f, NPrompts(c))]
                     /\ file' = save_students(students')
                     /\ last' = Last("update", "updated", r, c, i, {}, f, "none")
                     /\ UNCHANGED phase
                  \/ \E n \in 0..(NPrompts(c) - 1) :
                       /\ students' = [students EXCEPT
                              ![i] = ApplyChoice(students[i], c, f, n)]
                       /\ last' = Last("update", "raised", r, c, i, {}, f, "eof")
                       /\ UNCHANGED <<file, phase>>
    /\ found' = <<>>
    /\ ops' = ops + 1
    /\ UNCHANGED Aux

\* delete_student: r answers the roll number prompt, confirm the confirmation
delete_student ==
    /\ AtMenu
    /\ IF Len(students) = 0
       THEN Returns("delete", "empty", <<>>, 0, {}, "none")
       ELSE
         \/ Returns("delete", "raised", <<>>, 0, {}, "eof")
         \/ Interrupted
         \/ \E r \in RollInputs :
              LET i == FindIndex(students, r) IN
              IF i = 0
              THEN Returns("delete", "notfound", r, 0, {}, "none")
              ELSE \E confirm \in Confirms :
                IF Lower(confirm) \in {<<"y">>, <<"y","e","s">>}
                THEN /\ students' = PopAt(students, i)
                     /\ file' = save_students(students')
                     /\ last' = Last("delete", "deleted", r, "", i, {}, NoInput, "none")
                     /\ UNCHANGED phase
                ELSE Returns("delete", "cancelled", r, i, {}, "none")
    /\ found' = <<>>
    /\ ops' = ops + 1
    /\ UNCHANGED Aux

\* main's loop ends: choice 6, or KeyboardInterrupt at the menu prompt
Exit ==
    /\ phase = "menu"
    /\ ProcessEnds("exited")
    /\ found' = <<>>
    /\ UNCHANGED ops
    /\ UNCHANGED Aux

Next ==
    \/ Startup
    \/ add_student
    \/ view_all_students
    \/ search_student
    \/ update_student
    \/ delete_student
    \/ Exit

Spec == Init /\ [][Next]_vars

----------------------------------------------------------------------------
(* load_students on files of any content *)

aGoodRow == <<<<"a">>, <<"n">>, <<"1","5">>, gM, <<"c","s">>, <<"1">>,
              <<"8","5",".","5">>, <<"3",".","7">>, <<"A">>>>

\* rows a file can hold: well-formed ones, rows with empty or missing numeric
\* columns, rows whose Age or Marks is no number, and a blank line
FileRows ==
    {FormatRow(aGoodRow),
     FormatRow([aGoodRow EXCEPT ![1] = <<"b">>, ![2] = <<"m",",","\"">>]),
     FormatRow([aGoodRow EXCEPT ![3] = <<>>, ![6] = <<>>, ![7] = <<>>, ![8] = <<>>]),
     FormatRow(<<<<"b">>, <<"n">>>>),
     FormatRow([aGoodRow EXCEPT ![3] = <<"x","x">>]),
     FormatRow([aGoodRow EXCEPT ![7] = <<"8","5",".","x">>]),
     <<>>}

LoadFiles ==
    {NoFile, [exists |-> TRUE, lines |-> <<>>],
     [exists |-> TRUE, lines |-> <<FormatRow(aGoodRow), FormatRow(aGoodRow)>>]}
    \cup {[exists |-> TRUE, lines |-> <<HeaderLine>> \o rows] :
            rows \in UNION {[1..n -> FileRows] : n \in 0..MaxRecords}}

InitLoad == \E f \in LoadFiles : InitWith(f, <<>>, "start")

NextLoad == Startup

SpecLoad == InitLoad /\ [][NextLoad]_vars

----------------------------------------------------------------------------
(* save_students followed by load_students *)

\* records that pass add_student's validation
ValidRecords ==
    {NewStudent(r, f.Name, f.Age, Upper(f.Gender), f.Department, f.Semester, m) :
        r \in {<<"a">>, <<"b",",">>},
        f \in {g \in Forms : AddAccepts(g)},
        m \in {t \in {0, 5, 1000, 1001} : get_valid_input(t, 0, 1000)}}

ValidLists == UNION {[1..n -> ValidRecords] : n \in 0..MaxRecords}

InitRoundTrip == \E list \in ValidLists : InitWith(NoFile, list, "list")

SaveStep ==
    /\ phase = "list"
    /\ file' = save_students(students)
    /\ phase' = "saved"
    /\ UNCHANGED <<students, last, found, ops, loadError, reloaded, marksIn, gradeOut>>

LoadStep ==
    /\ phase = "saved"
    /\ reloaded' = load_students(file).students
    /\ loadError' = load_students(file).error
    /\ phase' = "loaded"
    /\ UNCHANGED <<students, file, last, found, ops, marksIn, gradeOut>>

NextRoundTrip == SaveStep \/ LoadStep

SpecRoundTrip == InitRoundTrip /\ [][NextRoundTrip]_vars

----------------------------------------------------------------------------
(* calculate_gpa_and_grade on every marks value of [0, 100], in tenths *)

InitGrade ==
    /\ marksIn \in {m \in 0..1000 : get_valid_input(m, 0, 1000)}
    /\ gradeOut = <<>>
    /\ phase = "marks"
    /\ students = <<>>
    /\ file = NoFile
    /\ last = NoLast
    /\ found = <<>>
    /\ ops = 0
    /\ loadError = FALSE
    /\ reloaded = <<>>

GradeStep ==
    /\ phase = "marks"
    /\ gradeOut' = calculate_gpa_and_grade(marksIn)
    /\ phase' = "graded"
    /\ UNCHANGED <<students, file, last, found, ops, loadError, reloaded, marksIn>>

NextGrade == GradeStep

SpecGrade == InitGrade /\ [][NextGrade]_vars

----------------------------------------------------------------------------
(* Properties *)

SameRollNo(a, b) == Lower(a) = Lower(b)

IsDuplicate(roll_no, list) ==
    \E i \in 1..Len(list) : SameRollNo(list[i].Roll_No, roll_no)

\* a step of the handler op
StepOf(op) == ops' = ops + 1 /\ last'.op = op

\* C1: after any sequence of create, update and delete from an empty store, no
\* two distinct records have roll numbers that are equal ignoring case.
C1_UniqueRollNo ==
    \A i, j \in 1..Len(students) :
        i # j => ~SameRollNo(students[i].Roll_No, students[j].Roll_No)

\* two records are stored, the second added after a case variant or a copy
\* of a stored roll number was turned down
C1_Witness ==
    /\ Len(students) = 2
    /\ last.op = "add" /\ last.outcome = "added"
    /\ \E t \in last.refused : IsDuplicate(t, students)

\* C2: a create whose roll number equals, ignoring case, that of a stored
\* record is rejected: a create never appends a record under such a roll
\* number, what it appends leaves the stored records as they were, and a
\* create that ends with every answer rejected leaves the store exactly as
\* it was.
C2_DuplicateCreateRejected ==
    [][StepOf("add") =>
          /\ last'.outcome = "added" =>
                /\ ~IsDuplicate(last'.key, students)
                /\ Len(students') = Len(students) + 1
                /\ SubSeq(students', 1, Len(students)) = students
                /\ students'[Len(students')].Roll_No = last'.key
          /\ last'.outcome # "added" => students' = students
          /\ \A t \in last'.refused : Len(t) = 0 \/ IsDuplicate(t, students)]_vars

\* a create that was answered with a case variant of a stored roll number
\* and then abandoned
C2_Witness ==
    /\ last.op = "add" /\ last.outcome = "raised"
    /\ \E t \in last.refused, i \in 1..Len(students) :
          t # students[i].Roll_No /\ SameRollNo(t, students[i].Roll_No)

\* C3: in every state reached from an empty store, every record's GPA and
\* Grade are those calculate_gpa_and_grade gives for its current Marks.
C3_DerivedFieldsConsistent ==
    \A i \in 1..Len(students) :
        <<students[i].GPA, students[i].Grade>>
            = calculate_gpa_and_grade(students[i].Marks)

\* an update of Marks alone has moved a record to 85.5, grade A
C3_Witness ==
    /\ last.op = "update" /\ last.outcome = "updated" /\ last.choice = "6"
    /\ students[last.idx].Marks = 855
    /\ students[last.idx].Grade = <<"A">>

\* the seven bands: inclusive lower bound (tenths), GPA (tenths), grade
Bands ==
    {<<900, 40, <<"A","+">>>>, <<800, 37, <<"A">>>>, <<700, 33, <<"B","+">>>>,
     <<600, 30, <<"B">>>>, <<500, 27, <<"C","+">>>>, <<400, 20, <<"C">>>>,
     <<0, 0, <<"F">>>>}

\* the band whose lower bound is the largest one not exceeding marks
BandOf(marks) ==
    CHOOSE b \in Bands :
        /\ b[1] <= marks
        /\ \A c \in Bands : c[1] <= marks => c[1] <= b[1]

\* C4: for every marks value in [0, 100] calculate_gpa_and_grade returns the
\* pair of the band whose inclusive lower bound is the largest one not
\* exceeding marks; 90, 80, 70, 60, 50 and 40 map to the higher band and
\* every value below 40 to (0.0, F).
C4_GradeBands ==
    phase = "graded" =>
        /\ gradeOut = <<BandOf(marksIn)[2], BandOf(marksIn)[3]>>
        /\ marksIn < 400 => gradeOut = <<0, <<"F">>>>

\* the boundary 90.0 has been graded A+
C4_Witness ==
    phase = "graded" /\ marksIn = 900 /\ gradeOut = <<40, <<"A","+">>>>

\* C5: save_students followed by load_students returns a list of the same
\* length, in the same order, each record with the same nine field values;
\* this includes the empty list.
C5_RoundTrip ==
    phase = "loaded" =>
        /\ ~loadError
        /\ Len(reloaded) = Len(students)
        /\ \A i \in 1..Len(students) : reloaded[i] = students[i]

\* a list of two records, one of whose names needs CSV quoting, was saved
\* and loaded
C5_Witness ==
    /\ phase = "loaded"
    /\ Len(students) = 2
    /\ \E i \in 1..2 : NeedsQuoting(students[i].Name)

\* C6: load is all-or-nothing: when a row fails numeric coercion, load
\* reports the failure and yields no records at all.
C6_LoadAllOrNothing ==
    (phase = "menu" /\ loadError) => Len(students) = 0

\* C7: after initialize has run, after every create, update and delete (each
\* of which persists through save) the file is the header row followed by
\* one row per record of the store, in store order; for an empty store it
\* is the header row alone.
C7_FileMirrorsStore ==
    last.outcome \in {"added", "updated", "deleted"} =>
        /\ file.exists
        /\ file.lines = <<HeaderLine>> \o [i \in 1..Len(students) |-> RowOf(students[i])]

\* C8: a confirmed delete removes exactly one record, the one whose roll
\* number equals the key ignoring case; the others stay, unmodified and in
\* order; a find by that roll number right afterwards returns nothing.
C8_DeleteRemovesOne ==
    [][(StepOf("delete") /\ last'.outcome = "deleted") =>
          LET i == last'.idx IN
          /\ i \in 1..Len(students)
          /\ SameRollNo(students[i].Roll_No, last'.key)
          /\ Len(students') = Len(students) - 1
          /\ \A j \in 1..Len(students') :
                students'[j] = IF j < i THEN students[j] ELSE students[j + 1]
          /\ FindByRollNo(students', last'.key) = <<>>]_vars

\* the first of two records was deleted and the second remains
C8_Witness ==
    /\ last.op = "delete" /\ last.outcome = "deleted" /\ last.idx = 1
    /\ Len(students) = 1

\* the fields choice c selects
Selected(c) ==
    CASE c = "1" -> {"Name"}
      [] c = "2" -> {"Age"}
      [] c = "3" -> {"Gender"}
      [] c = "4" -> {"Department"}
      [] c = "5" -> {"Semester"}
      [] c = "6" -> {"Marks", "GPA", "Grade"}
      [] c = "7" -> {"Name", "Age", "Gender", "Department", "Semester",
                     "Marks", "GPA", "Grade"}
      [] OTHER -> {}

\* C9: an update changes only the fields selected (with GPA and Grade when
\* Marks is among them): the roll number never changes, an empty answer for
\* name or department keeps the old value, every other record is unchanged,
\* and the number and order of records stay the same.
C9_UpdateFrame ==
    [][StepOf("update") =>
          /\ Len(students') = Len(students)
          /\ \A j \in 1..Len(students) :
                IF j # last'.idx THEN students'[j] = students[j]
                ELSE /\ students'[j].Roll_No = students[j].Roll_No
                     /\ \A k \in DOMAIN students[j] :
                           k \notin Selected(last'.choice) =>
                               students'[j][k] = students[j][k]
                     /\ Len(last'.inp.Name) = 0 =>
                           students'[j].Name = students[j].Name
                     /\ Len(last'.inp.Department) = 0 =>
                           students'[j].Department = students[j].Department]_vars

\* an "update all" answered with an empty name and department completed on
\* one of two records
C9_Witness ==
    /\ last.op = "update" /\ last.outcome = "updated" /\ last.choice = "7"
    /\ Len(last.inp.Name) = 0 /\ Len(last.inp.Department) = 0
    /\ Len(students) = 2
    /\ students[last.idx].Semester = last.inp.Semester

\* C10: every create, update and delete either completes, with its changes
\* applied and the whole store saved, or ends with the store identical to
\* what it was when the operation began.
C10_AtomicOperations ==
    [][(ops' = ops + 1 /\ phase' = "menu") =>
          \/ students' = students
          \/ /\ last'.outcome \in {"added", "updated", "deleted"}
             /\ file' = save_students(students')]_vars

====
